---- MODULE Spec2Model ----
(***************************************************************************)
(* State-machine model of networks/deep_feudal/batch_processor.py:         *)
(* cosine_similarity, the DeepFeudalBatch accumulator and the stateful     *)
(* DeepFeudalBatchProcessor.                                               *)
(*                                                                         *)
(* Python lists are sequences; a Python index i is the sequence index      *)
(* i + 1 (operator At).  A numpy array is a record [shape, data] holding   *)
(* its shape and its elements in row-major order.  A call that raises is   *)
(* a step of the model too: it keeps the assignments made before the       *)
(* raise and reports the exception in its result.                          *)
(***************************************************************************)
EXTENDS Integers, Sequences, FiniteSets, TLC

\* ------------------------------------------------------------------ bounds
MaxC     == 2      \* horizons 0 .. MaxC are constructed
MaxLen   == 5      \* the first raw batch fed holds 0 .. MaxLen timesteps
MaxNext  == 2      \* every later raw batch holds 0 .. MaxNext timesteps
MaxCalls == 3      \* process_batch calls made on one processor

Kinds  == {"ramp", "saw"}       \* the trajectories the environment produces
Shapes == {<<>>, <<1>>}         \* shape of one s / g embedding: scalar or 1-vector

\* ------------------------------------------------------------ Python, numpy
None == "None"

At(lst, i) == lst[i + 1]                       \* lst[i], 0 <= i < len(lst)

InRange(lst, i) == 0 <= i /\ i < Len(lst)

Abs(x) == IF x < 0 THEN -x ELSE x

\* lst[-n:] : the last n entries; -0 is 0, so lst[-0:] is the whole list
TailSlice(lst, n) ==
    IF n = 0 \/ n >= Len(lst) THEN lst
    ELSE SubSeq(lst, Len(lst) - n + 1, Len(lst))

Repeat(x, n) == [i \in 1..n |-> x]

RECURSIVE Prod(_)
Prod(sh) == IF sh = <<>> THEN 1 ELSE sh[1] * Prod(Tail(sh))

RECURSIVE SumSeq(_)
SumSeq(q) == IF q = <<>> THEN 0 ELSE q[1] + SumSeq(Tail(q))

Arr(sh, d) == [shape |-> sh, data |-> d]

zeros_like(a) == Arr(a.shape, [i \in 1..Len(a.data) |-> 0])

ArrSub(a, b) == Arr(a.shape, [i \in 1..Len(a.data) |-> a.data[i] - b.data[i]])

ArrAdd(a, b) == Arr(a.shape, [i \in 1..Len(a.data) |-> a.data[i] + b.data[i]])

RECURSIVE Flatten(_)
Flatten(lst) == IF lst = <<>> THEN <<>> ELSE lst[1].data \o Flatten(Tail(lst))

\* np.asarray of a list of equally shaped arrays
asarray(lst) ==
    IF lst = <<>> THEN Arr(<<0>>, <<>>)
    ELSE Arr(<<Len(lst)>> \o lst[1].shape, Flatten(lst))

Rank(a) == Len(a.shape)

squeeze(a) == Arr(SelectSeq(a.shape, LAMBDA n : n # 1), a.data)

expand_dims0(a) == Arr(<<1>> \o a.shape, a.data)

squeeze_axis1(a) == Arr(<<a.shape[1]>> \o SubSeq(a.shape, 3, Len(a.shape)), a.data)

\* a[i] for an array of rank >= 1
Index0(a, i) ==
    LET rest == Tail(a.shape)
        sz   == Prod(rest)
    IN  Arr(rest, SubSeq(a.data, i * sz + 1, (i + 1) * sz))

\* np.sum(a, axis=0) for an array of rank >= 1
SumAxis0(a) ==
    LET rest == Tail(a.shape)
        sz   == Prod(rest)
    IN  Arr(rest, [j \in 1..sz |->
                     SumSeq([i \in 1..a.shape[1] |-> a.data[(i - 1) * sz + j]])])

\* a similarity that forgets to divide by the norms
cosine_similarity_NoNorm(u, v) == u.data[1] * v.data[1]

\* dot(squeeze(u), squeeze(v)) / (norm(u) * norm(v) + eps), eps = 1e-8, for
\* embeddings of one integer component a and b: the quotient is
\* a*b / (|a|*|b| + eps), which is 0 when a*b = 0 (eps keeps the denominator
\* non-zero) and otherwise sign(a*b) * (1 - eps/(|a*b| + eps)), within eps of
\* +1 or -1.  The model keeps the value to that precision.
cosine_similarity(u, v) ==
    LET dot   == u.data[1] * v.data[1]
        norms == Abs(u.data[1]) * Abs(v.data[1])
    IN  IF dot = 0 THEN 0 ELSE dot \div norms

\* ------------------------------------------------------------ DeepFeudalBatch
\* DeepFeudalBatch.__init__: the empty accumulator
DeepFeudalBatch ==
    [obs             |-> [screen |-> <<>>, minimap |-> <<>>, non_spatial |-> <<>>],
     actions         |-> [non_spatial |-> <<>>, spatial |-> <<>>],
     manager_returns |-> <<>>,
     worker_returns  |-> <<>>,
     s_diff          |-> <<>>,
     ri              |-> <<>>,
     g               |-> <<>>,
     g_in            |-> <<>>,
     gsum            |-> <<>>,
     g_prev          |-> <<>>,
     idx             |-> <<>>,
     features        |-> <<>>]

\* DeepFeudalBatch.add: one record appended to every list (g_in stays empty)
add(fb, screen_obs, minimap_obs, non_spatial_obs, act_id, act_target, manager_returns, worker_returns, s_diff, ri, g, gsum, g_prev, idx, features) ==
    [fb EXCEPT
       !.obs.screen          = Append(@, screen_obs),
       !.obs.minimap         = Append(@, minimap_obs),
       !.obs.non_spatial     = Append(@, non_spatial_obs),
       !.actions.non_spatial = Append(@, act_id),
       !.actions.spatial     = Append(@, act_target),
       !.manager_returns     = Append(@, manager_returns),
       !.worker_returns      = Append(@, worker_returns),
       !.s_diff              = Append(@, s_diff),
       !.ri                  = Append(@, ri),
       !.g                   = Append(@, g),
       !.gsum                = Append(@, gsum),
       !.g_prev              = Append(@, g_prev),
       !.idx                 = Append(@, idx),
       !.features            = Append(@, features)]

\* lines 68-72: rank > 2 is squeezed, then rank < 2 gets a leading axis
batch_g_in(fb) ==
    LET a0 == asarray(fb.g)
        a1 == IF Rank(a0) > 2 THEN squeeze(a0) ELSE a0
    IN  IF Rank(a1) < 2 THEN expand_dims0(a1) ELSE a1

\* lines 73-78: rank > 3 is squeezed, then rank < 3 gets a leading axis
batch_g_prev(fb) ==
    LET a0 == asarray(fb.g_prev)
        a1 == IF Rank(a0) > 3 THEN squeeze(a0) ELSE a0
    IN  IF Rank(a1) < 3 THEN expand_dims0(a1) ELSE a1

\* lines 80-83, 91: one sum along axis 0 per entry of the normalised g_prev
\* array; the gsum values handed to add are not read
batch_gs(fb) ==
    LET gp == batch_g_prev(fb)
    IN  asarray([i \in 1..gp.shape[1] |-> SumAxis0(Index0(gp, i - 1))])

\* lines 87-89
batch_sd(fb) ==
    LET a0 == asarray(fb.s_diff)
    IN  IF Rank(a0) >= 2 /\ a0.shape[2] = 1 THEN squeeze_axis1(a0) ELSE a0

NoBatch == [records |-> 0]

Raised(e) == [ok |-> FALSE, error |-> e, batch |-> NoBatch]

Returned(b) == [ok |-> TRUE, error |-> "", batch |-> b]

\* DeepFeudalBatch.get_batch: batch_idx[0] raises IndexError on an accumulator
\* that holds no record (everything before line 95 accepts empty lists)
get_batch(fb) ==
    IF Len(fb.idx) = 0 THEN Raised("IndexError")
    ELSE Returned(
           [obs             |-> fb.obs,
            actions         |-> fb.actions,
            manager_returns |-> fb.manager_returns,
            worker_returns  |-> fb.worker_returns,
            s_diff          |-> batch_sd(fb),
            ri              |-> fb.ri,
            g_in            |-> batch_g_in(fb),
            gsum            |-> batch_gs(fb),
            g_prev          |-> batch_g_prev(fb),
            idx             |-> At(fb.idx, 0),
            features        |-> At(fb.features, 0)])

\* --------------------------------------------------- DeepFeudalBatchProcessor
\* DeepFeudalBatchProcessor.__init__: g_save, g_prev and idx are not attributes
\* of a new processor (has_pad_attrs); _pad_front creates them
DeepFeudalBatchProcessor(c) ==
    [c               |-> c,
     last_terminal   |-> TRUE,
     obs             |-> [screen |-> <<>>, minimap |-> <<>>, non_spatial |-> <<>>],
     actions         |-> [non_spatial |-> <<>>, spatial |-> <<>>],
     manager_returns |-> <<>>,
     worker_returns  |-> <<>>,
     s               |-> <<>>,
     g               |-> <<>>,
     features        |-> <<>>,
     has_pad_attrs   |-> FALSE,
     g_save          |-> <<>>,
     g_prev          |-> <<>>,
     idx             |-> <<>>]

Step(p, e) == [p |-> p, error |-> e]

\* the zero frames np.zeros(shape) with shape[0] = c
ZeroFrames(c) == Repeat(0, c)

\* _pad_front: batch.s[0] (line 120) and batch.g[0] (line 121) are evaluated
\* once per placeholder, so they raise IndexError on an empty field when c > 0
_pad_front(p, batch) ==
    IF p.c > 0 /\ Len(batch.s) = 0 THEN Step(p, "IndexError")
    ELSE LET p1 == [p EXCEPT !.s = [i \in 1..p.c |-> zeros_like(At(batch.s, 0))]]
         IN  IF p.c > 0 /\ Len(batch.g) = 0 THEN Step(p1, "IndexError")
             ELSE Step([p1 EXCEPT
                          !.g = [i \in 1..p.c |-> zeros_like(At(batch.g, 0))],
                          !.obs = [screen      |-> ZeroFrames(p.c),
                                   minimap     |-> ZeroFrames(p.c),
                                   non_spatial |-> ZeroFrames(p.c)],
                          !.actions = [spatial     |-> Repeat(None, p.c),
                                       non_spatial |-> Repeat(None, p.c)],
                          !.has_pad_attrs = TRUE,
                          !.g_save = Repeat(None, p.c),
                          !.g_prev = Repeat(None, p.c),
                          !.idx = Repeat(None, p.c),
                          !.manager_returns = Repeat(None, p.c),
                          !.worker_returns = Repeat(None, p.c),
                          !.features = Repeat(None, p.c)], "")

\* the value _pad_back appends c times: np.zeros_like of the last real entry
PadBackValue(last) == zeros_like(last)

\* a back pad that appends one placeholder too few
_pad_back_OneShort(p, batch) ==
    IF Len(batch.s) = 0 \/ Len(batch.g) = 0 THEN Step(p, "IndexError")
    ELSE Step([p EXCEPT
                 !.s = @ \o [i \in 1..(p.c - 1) |-> PadBackValue(batch.s[Len(batch.s)])],
                 !.g = @ \o [i \in 1..(p.c - 1) |-> PadBackValue(batch.g[Len(batch.g)])]],
              "")

\* _pad_back: batch.s[-1] and batch.g[-1] raise IndexError on an empty field
_pad_back(p, batch) ==
    IF p.c > 0 /\ Len(batch.s) = 0 THEN Step(p, "IndexError")
    ELSE LET p1 == [p EXCEPT !.s = @ \o [i \in 1..p.c |->
                                           PadBackValue(batch.s[Len(batch.s)])]]
         IN  IF p.c > 0 /\ Len(batch.g) = 0 THEN Step(p1, "IndexError")
             ELSE Step([p1 EXCEPT !.g = @ \o [i \in 1..p.c |->
                                           PadBackValue(batch.g[Len(batch.g)])]], "")

\* lines 153-158: the observation and action buffers are extended first
ExtendObsActions(p, batch) ==
    [p EXCEPT
       !.obs.screen          = @ \o batch.obs.screen,
       !.obs.minimap         = @ \o batch.obs.minimap,
       !.obs.non_spatial     = @ \o batch.obs.non_spatial,
       !.actions.spatial     = @ \o batch.actions.spatial,
       !.actions.non_spatial = @ \o batch.actions.non_spatial]

\* lines 160-167
ExtendRest(p, batch) ==
    [p EXCEPT
       !.g_save          = @ \o batch.g,
       !.idx             = @ \o batch.idx,
       !.g_prev          = @ \o batch.g_prev,
       !.manager_returns = @ \o batch.manager_returns,
       !.worker_returns  = @ \o batch.worker_returns,
       !.s               = @ \o batch.s,
       !.g               = @ \o batch.g,
       !.features        = @ \o batch.features]

\* _extend: last_terminal is cleared before _pad_front runs; self.g_save.extend
\* (line 160) raises AttributeError on a processor _pad_front never completed on
_extend(p, batch) ==
    LET front == IF p.last_terminal
                 THEN _pad_front([p EXCEPT !.last_terminal = FALSE], batch)
                 ELSE Step(p, "")
    IN  IF front.error # "" THEN front
        ELSE LET p1 == ExtendObsActions(front.p, batch)
             IN  IF ~p1.has_pad_attrs THEN Step(p1, "AttributeError")
                 ELSE LET p2 == ExtendRest(p1, batch)
                      IN  IF batch.terminal THEN _pad_back(p2, batch)
                          ELSE Step(p2, "")

\* lines 183: s_diff = s[t + c] - s[t]
s_diff_at(p, t) == ArrSub(At(p.s, t + p.c), At(p.s, t))

\* lines 184-187: the c cosine similarities are summed and divided by c; the
\* quotient is kept as the fraction num / den
ri_at(p, t) ==
    [num |-> SumSeq([i \in 1..p.c |->
                       cosine_similarity(ArrSub(At(p.s, t), At(p.s, t - i)),
                                         At(p.g, t - i))]),
     den |-> p.c]

RECURSIVE AddRange(_, _, _, _)
AddRange(g, i, hi, acc) ==
    IF i >= hi THEN acc ELSE AddRange(g, i + 1, hi, ArrAdd(acc, At(g, i)))

\* lines 189-191: gsum = g[t - c] + ... + g[t]
gsum_at(p, t) == AddRange(p.g, t - p.c, t + 1, zeros_like(At(p.g, t - p.c)))

\* every list read at index t by lines 193-199
ReadsInRange(p, t) ==
    /\ InRange(p.g, t)
    /\ InRange(p.obs.screen, t) /\ InRange(p.obs.minimap, t)
    /\ InRange(p.obs.non_spatial, t)
    /\ InRange(p.actions.non_spatial, t) /\ InRange(p.actions.spatial, t)
    /\ InRange(p.manager_returns, t) /\ InRange(p.worker_returns, t)
    /\ InRange(p.g_save, t) /\ InRange(p.g_prev, t)
    /\ InRange(p.idx, t) /\ InRange(p.features, t)

\* lines 182-199, iterations t .. end - 1: a read past the end of a list raises
\* IndexError, ri /= c raises ZeroDivisionError when c = 0
RECURSIVE Windows(_, _, _, _)
Windows(p, t, end, fb) ==
    IF t >= end THEN [fb |-> fb, error |-> ""]
    ELSE IF ~InRange(p.s, t + p.c) THEN [fb |-> fb, error |-> "IndexError"]
    ELSE IF p.c = 0 THEN [fb |-> fb, error |-> "ZeroDivisionError"]
    ELSE IF ~ReadsInRange(p, t) THEN [fb |-> fb, error |-> "IndexError"]
    ELSE Windows(p, t + 1, end,
                 add(fb,
                     At(p.obs.screen, t), At(p.obs.minimap, t), At(p.obs.non_spatial, t),
                     At(p.actions.non_spatial, t), At(p.actions.spatial, t),
                     At(p.manager_returns, t), At(p.worker_returns, t),
                     s_diff_at(p, t), ri_at(p, t), At(p.g_save, t), gsum_at(p, t),
                     At(p.g_prev, t), At(p.idx, t), At(p.features, t)))

\* a window end that forgets the terminal case
WindowEnd_NoTerminal(length, c, terminal) == length - c

\* line 179
WindowEnd(length, c, terminal) == IF terminal THEN length ELSE length - c

\* a trim length that keeps one entry too many
twoc_OneMore(c) == 2 * c + 1

\* line 204
twoc(c) == 2 * c

\* a trim that forgets the goal buffer, as the code forgets g_save
Trim_KeepsG(p) ==
    LET n == twoc(p.c)
        m == TailSlice(p.manager_returns, n)
    IN  [p EXCEPT
           !.obs.screen          = TailSlice(@, n),
           !.obs.minimap         = TailSlice(@, n),
           !.obs.non_spatial     = TailSlice(@, n),
           !.actions.spatial     = TailSlice(@, n),
           !.actions.non_spatial = TailSlice(@, n),
           !.manager_returns     = m,
           !.worker_returns      = TailSlice(m, n),
           !.s                   = TailSlice(@, n),
           !.features            = TailSlice(@, n)]

\* lines 204-216: worker_returns is assigned the trimmed manager_returns;
\* g_save, g_prev and idx are not trimmed
Trim(p) ==
    LET n == twoc(p.c)
        m == TailSlice(p.manager_returns, n)
    IN  [p EXCEPT
           !.obs.screen          = TailSlice(@, n),
           !.obs.minimap         = TailSlice(@, n),
           !.obs.non_spatial     = TailSlice(@, n),
           !.actions.spatial     = TailSlice(@, n),
           !.actions.non_spatial = TailSlice(@, n),
           !.manager_returns     = m,
           !.worker_returns      = TailSlice(m, n),
           !.s                   = TailSlice(@, n),
           !.g                   = TailSlice(@, n),
           !.features            = TailSlice(@, n)]

\* lines 201-202
MarkTerminal(p) == [p EXCEPT !.last_terminal = TRUE]

\* process_batch: the processor after the call (p), what the call returned or
\* raised (ret), the accumulator it filled (fb) and the number of placeholders
\* _pad_front put in front of the buffers during the call (npad, 0 when
\* _pad_front did not run or raised).  A raise keeps every assignment made
\* before it.
process_batch(p, batch) ==
    LET ext  == _extend(p, batch)
        npad == IF p.last_terminal /\ _pad_front(p, batch).error = ""
                THEN p.c ELSE 0
    IN  IF ext.error # ""
        THEN [p |-> ext.p, ret |-> Raised(ext.error), fb |-> DeepFeudalBatch,
              npad |-> npad]
        ELSE LET q      == ext.p
                 length == Len(q.obs.screen)
                 end    == WindowEnd(length, q.c, batch.terminal)
                 w      == Windows(q, q.c, end, DeepFeudalBatch)
             IN  IF w.error # ""
                 THEN [p |-> q, ret |-> Raised(w.error), fb |-> w.fb, npad |-> npad]
                 ELSE [p    |-> IF batch.terminal THEN MarkTerminal(q) ELSE Trim(q),
                       ret  |-> get_batch(w.fb),
                       fb   |-> w.fb,
                       npad |-> npad]

\* ---------------------------------------------------------------- environment
\* The caller's data.  Timestep n (0-based) of an episode of kind k carries the
\* embeddings SVal(k, n) and GVal(k, n); the k-th timestep fed to the processor
\* (1-based, over all episodes) carries observations, actions, returns, idx and
\* features that name k, each field with its own code.
SVal(kind, n) == IF kind = "ramp" THEN n ELSE IF n % 2 = 0 THEN 2 ELSE 0

GVal(kind, n) == IF kind = "ramp" THEN 1 ELSE IF n % 3 = 0 THEN -1 ELSE 2

Emb(shape, v) == Arr(shape, <<v>>)

\* the window of goals g[n - c] .. g[n] the caller stores with timestep n
GPrevWindow(kind, shape, c, n) ==
    Arr(<<c + 1>> \o shape,
        [j \in 1..(c + 1) |-> IF n - c + j - 1 < 0 THEN 0
                               ELSE GVal(kind, n - c + j - 1)])

FieldCode(k, f) == 10 * k + f

RawBatch(kind, shape, c, pos, fed, L, terminal) ==
    [obs |-> [screen      |-> [j \in 1..L |-> FieldCode(fed + j, 1)],
              minimap     |-> [j \in 1..L |-> FieldCode(fed + j, 2)],
              non_spatial |-> [j \in 1..L |-> FieldCode(fed + j, 3)]],
     actions |-> [spatial     |-> [j \in 1..L |-> FieldCode(fed + j, 4)],
                  non_spatial |-> [j \in 1..L |-> FieldCode(fed + j, 5)]],
     manager_returns |-> [j \in 1..L |-> FieldCode(fed + j, 6)],
     worker_returns  |-> [j \in 1..L |-> FieldCode(fed + j, 7)],
     s        |-> [j \in 1..L |-> Emb(shape, SVal(kind, pos + j - 1))],
     g        |-> [j \in 1..L |-> Emb(shape, GVal(kind, pos + j - 1))],
     g_prev   |-> [j \in 1..L |-> GPrevWindow(kind, shape, c, pos + j - 1)],
     idx      |-> [j \in 1..L |-> fed + j],
     features |-> [j \in 1..L |-> FieldCode(fed + j, 8)],
     terminal |-> terminal]

\* how many timesteps more (or fewer) than its observations the embeddings and
\* goals of a batch hold
Skews == {-1, 0, 1}

\* a batch of L timesteps whose s and g sequences hold L + d timesteps
SkewedBatch(kind, shape, c, pos, fed, L, terminal, d) ==
    [RawBatch(kind, shape, c, pos, fed, L, terminal) EXCEPT
        !.s = [j \in 1..(L + d) |-> Emb(shape, SVal(kind, pos + j - 1))],
        !.g = [j \in 1..(L + d) |-> Emb(shape, GVal(kind, pos + j - 1))]]

\* ------------------------------------------------------------------ the system
VARIABLES
    proc,     \* the DeepFeudalBatchProcessor object
    ret,      \* what the last process_batch call returned or raised
    kind,     \* the kind of trajectory the environment produces
    shape,    \* the shape of one embedding
    pos,      \* timesteps of the current episode fed so far
    fed,      \* timesteps fed so far, over all episodes
    calls     \* the calls made: the processor before the call, the batch, the
              \* result, the accumulator and the placeholders front-padded

vars == <<proc, ret, kind, shape, pos, fed, calls>>

Init ==
    /\ \E c \in 0..MaxC : proc = DeepFeudalBatchProcessor(c)
    /\ ret = Raised("")
    /\ kind \in Kinds
    /\ shape \in Shapes
    /\ pos = 0
    /\ fed = 0
    /\ calls = <<>>

\* one process_batch call with the next L timesteps of the trajectory
Call(L, terminal) ==
    /\ Len(calls) < MaxCalls
    /\ LET batch == RawBatch(kind, shape, proc.c, pos, fed, L, terminal)
           r     == process_batch(proc, batch)
       IN  /\ proc' = r.p
           /\ ret' = r.ret
           /\ calls' = Append(calls, [pre |-> proc, batch |-> batch, ret |-> r.ret,
                                      fb |-> r.fb, npad |-> r.npad])
    /\ pos' = IF terminal THEN 0 ELSE pos + L
    /\ fed' = fed + L
    /\ UNCHANGED <<kind, shape>>

Next ==
    \E L \in 0..(IF calls = <<>> THEN MaxLen ELSE MaxNext), terminal \in BOOLEAN :
        Call(L, terminal)

Spec == Init /\ [][Next]_vars

\* one process_batch call with a batch whose s and g are skewed by d timesteps
CallSkewed(L, terminal, d) ==
    /\ Len(calls) < MaxCalls
    /\ L + d >= 0
    /\ LET batch == SkewedBatch(kind, shape, proc.c, pos, fed, L, terminal, d)
           r     == process_batch(proc, batch)
       IN  /\ proc' = r.p
           /\ ret' = r.ret
           /\ calls' = Append(calls, [pre |-> proc, batch |-> batch, ret |-> r.ret,
                                      fb |-> r.fb, npad |-> r.npad])
    /\ pos' = IF terminal THEN 0 ELSE pos + L
    /\ fed' = fed + L
    /\ UNCHANGED <<kind, shape>>

NextSkewed ==
    \E L \in 0..MaxNext, terminal \in BOOLEAN, d \in Skews : CallSkewed(L, terminal, d)

\* the processor fed batches that may be inconsistent in length
SpecSkewed == Init /\ [][NextSkewed]_vars

\* ---------------------------------------------------------------- the claims
NCalls == Len(calls)

Last == calls[NCalls]

BatchLen(batch) == Len(batch.obs.screen)

\* the records of a returned batch, counted on the per-record lists
Records(b) == Len(b.obs.screen)

\* the per-record lists of a returned batch all hold n entries
HasRecords(b, n) ==
    /\ Len(b.obs.screen) = n /\ Len(b.obs.minimap) = n /\ Len(b.obs.non_spatial) = n
    /\ Len(b.actions.non_spatial) = n /\ Len(b.actions.spatial) = n
    /\ Len(b.manager_returns) = n /\ Len(b.worker_returns) = n
    /\ Len(b.ri) = n /\ b.s_diff.shape = <<n>>

\* C1: for c >= 1 and L >= 1, process_batch on a new processor with one
\* terminal batch of L timesteps returns a batch of exactly L records, one
\* per timestep of the batch, in input order.
C1_SingleTerminalBatch ==
    (proc.c >= 1 /\ NCalls = 1 /\ Last.batch.terminal /\ BatchLen(Last.batch) >= 1)
    => /\ ret.ok
       /\ HasRecords(ret.batch, BatchLen(Last.batch))
       /\ ret.batch.obs = Last.batch.obs
       /\ ret.batch.actions = Last.batch.actions
       /\ ret.batch.manager_returns = Last.batch.manager_returns
       /\ ret.batch.worker_returns = Last.batch.worker_returns
       /\ shape = <<1>> => /\ ret.batch.g_in.shape[1] = BatchLen(Last.batch)
                           /\ ret.batch.g_prev.shape[1] = BatchLen(Last.batch)
                           /\ ret.batch.gsum.shape[1] = BatchLen(Last.batch)

C1_Witness ==
    /\ proc.c = MaxC /\ NCalls = 1 /\ Last.batch.terminal
    /\ BatchLen(Last.batch) = 1 /\ ret.ok /\ Records(ret.batch) = 1

\* two raw batches of one trajectory joined into one
ConcatBatch(b1, b2, terminal) ==
    [obs |-> [screen      |-> b1.obs.screen \o b2.obs.screen,
              minimap     |-> b1.obs.minimap \o b2.obs.minimap,
              non_spatial |-> b1.obs.non_spatial \o b2.obs.non_spatial],
     actions |-> [spatial     |-> b1.actions.spatial \o b2.actions.spatial,
                  non_spatial |-> b1.actions.non_spatial \o b2.actions.non_spatial],
     manager_returns |-> b1.manager_returns \o b2.manager_returns,
     worker_returns  |-> b1.worker_returns \o b2.worker_returns,
     s        |-> b1.s \o b2.s,
     g        |-> b1.g \o b2.g,
     g_prev   |-> b1.g_prev \o b2.g_prev,
     idx      |-> b1.idx \o b2.idx,
     features |-> b1.features \o b2.features,
     terminal |-> terminal]

\* the records of two results that carry the same screen observation carry
\* the same s_diff and ri
SameWindows(r1, r2) ==
    (r1.ok /\ r2.ok) =>
        \A i \in 1..Records(r1.batch), k \in 1..Records(r2.batch) :
            r1.batch.obs.screen[i] = r2.batch.obs.screen[k]
            => /\ r1.batch.s_diff.data[i] = r2.batch.s_diff.data[k]
               /\ r1.batch.ri[i] = r2.batch.ri[k]

TwoCallEpisode ==
    /\ proc.c >= 1 /\ NCalls = 2
    /\ ~calls[1].batch.terminal /\ calls[2].batch.terminal
    /\ BatchLen(calls[1].batch) >= 1 /\ BatchLen(calls[2].batch) >= 1

\* the whole trajectory of a two-call episode fed as one terminal call
OneCall ==
    process_batch(DeepFeudalBatchProcessor(proc.c),
                  ConcatBatch(calls[1].batch, calls[2].batch, TRUE)).ret

\* C2: a trajectory fed to a new processor as a non-terminal call followed by
\* a terminal call yields, for every timestep both feeds emit, the s_diff and
\* ri that feeding it as one terminal call yields; the terminal call of the
\* split feed returns.
C2_Continuity ==
    TwoCallEpisode
    => /\ calls[2].ret.ok
       /\ OneCall.ok
       /\ SameWindows(calls[1].ret, OneCall)
       /\ SameWindows(calls[2].ret, OneCall)

C2_Witness ==
    /\ TwoCallEpisode /\ kind = "saw" /\ proc.c = MaxC
    /\ calls[1].ret.ok /\ Records(calls[1].ret.batch) >= 1
    /\ calls[2].ret.ok /\ Records(calls[2].ret.batch) >= 2
    /\ Records(OneCall.batch)
         = Records(calls[1].ret.batch) + Records(calls[2].ret.batch)

\* lengths of the follow-up batches C3 compares the two processors on
FollowUpLens == 0..MaxNext

\* what two further calls return on processor p, fed the next two batches of
\* the environment
FollowUp(p, L1, t1, L2, t2) ==
    LET b1 == RawBatch(kind, shape, p.c, 0, fed, L1, t1)
        r1 == process_batch(p, b1)
        b2 == RawBatch(kind, shape, p.c, IF t1 THEN 0 ELSE L1, fed + L1, L2, t2)
        r2 == process_batch(r1.p, b2)
    IN  <<r1.ret, r2.ret>>

SameRet(r1, r2) ==
    /\ r1.ok = r2.ok
    /\ r1.error = r2.error
    /\ r1.ok => r1.batch = r2.batch

\* C3: after a terminal call has returned, the processor answers every
\* further sequence of calls exactly as a new processor of the same c does,
\* call by call.
C3_FullReset ==
    (proc.c >= 1 /\ NCalls >= 1 /\ Last.batch.terminal /\ ret.ok)
    => \A L1 \in FollowUpLens, L2 \in FollowUpLens, t1 \in BOOLEAN, t2 \in BOOLEAN :
          LET used == FollowUp(proc, L1, t1, L2, t2)
              new  == FollowUp(DeepFeudalBatchProcessor(proc.c), L1, t1, L2, t2)
          IN  SameRet(used[1], new[1]) /\ SameRet(used[2], new[2])

\* the lengths of the buffers the processor owns
BufferLens(p) ==
    <<Len(p.obs.screen), Len(p.obs.minimap), Len(p.obs.non_spatial),
      Len(p.actions.spatial), Len(p.actions.non_spatial),
      Len(p.manager_returns), Len(p.worker_returns),
      Len(p.s), Len(p.g), Len(p.features),
      Len(p.g_save), Len(p.g_prev), Len(p.idx)>>

\* C4: after every non-terminal call that returns, every buffer of the
\* processor, g_save, g_prev and idx included, holds at most 2c entries.
C4_BoundedMemory ==
    (proc.c >= 1 /\ NCalls >= 1 /\ ~Last.batch.terminal /\ ret.ok)
    => \A i \in 1..Len(BufferLens(proc)) : BufferLens(proc)[i] <= 2 * proc.c

\* C5: every record of a returned batch carries as gsum the sum
\* g[t - c] + ... + g[t] over the processor's goal buffer at the record's
\* timestep t, the value the windowed loop computes for the record.
C5_GsumIsGoalWindowSum ==
    (proc.c >= 1 /\ NCalls >= 1 /\ ret.ok)
    => /\ ret.batch.gsum.shape[1] = Records(ret.batch)
       /\ \A i \in 1..Records(ret.batch) :
             Index0(ret.batch.gsum, i - 1).data = Last.fb.gsum[i].data

\* C6: a terminal call appends c copies of the batch's final s and g to the
\* s and g buffers, so each record whose t + c lies past the last real
\* timestep has s_diff = s_final - s[t].
C6_BackPadRepeatsFinal ==
    (proc.c >= 1 /\ NCalls >= 1 /\ Last.batch.terminal /\ ret.ok
       /\ BatchLen(Last.batch) >= 1)
    => LET sf     == Last.batch.s[Len(Last.batch.s)]
           gf     == Last.batch.g[Len(Last.batch.g)]
           length == Len(proc.obs.screen)
       IN  /\ \A i \in 1..proc.c :
                 /\ proc.s[Len(proc.s) - proc.c + i] = sf
                 /\ proc.g[Len(proc.g) - proc.c + i] = gf
           /\ \A i \in 1..Records(ret.batch) :
                 LET t == proc.c + i - 1
                 IN  t + proc.c >= length
                     => ret.batch.s_diff.data[i] = sf.data[1] - At(proc.s, t).data[1]

\* C7: within an episode, after each call that returns, all buffers of the
\* processor have the same length.
C7_EqualLengths ==
    (proc.c >= 1 /\ NCalls >= 1 /\ ret.ok /\ ~proc.last_terminal)
    => \A i \in 1..Len(BufferLens(proc)) : BufferLens(proc)[i] = BufferLens(proc)[1]

\* the scenario of C8: c = 2, a new processor, one terminal batch of 5
\* timesteps with scalar s_t = t and g_t = 1
C8_Scenario ==
    /\ proc.c = 2 /\ kind = "ramp" /\ shape = <<>>
    /\ NCalls = 1 /\ Last.batch.terminal /\ BatchLen(Last.batch) = 5

One == [num |-> 2, den |-> 2]

\* C8 as stated: in the scenario the call returns 5 records and every ri is +1.
C8_AllRiOne ==
    C8_Scenario
    => /\ ret.ok
       /\ HasRecords(ret.batch, 5)
       /\ \A i \in 1..5 : ret.batch.ri[i] = One

\* C8 as amended: in the scenario the call returns 5 records; ri is +1 for
\* timesteps 2, 3 and 4, 0 for timestep 0 and 1/2 for timestep 1, because a
\* cosine term against a zero front-pad goal is 0.
C8_RiOneFromStepC ==
    C8_Scenario
    => /\ ret.ok
       /\ HasRecords(ret.batch, 5)
       /\ ret.batch.ri = <<[num |-> 0, den |-> 2], [num |-> 1, den |-> 2], One, One, One>>

C8_Witness == C8_Scenario /\ ret.ok /\ Records(ret.batch) = 5

\* C9: a new processor awaits an episode start; after every call that
\* returns, it awaits an episode start iff the batch was terminal; a call
\* made while awaiting an episode start front-pads c placeholders, a call made
\* in an episode front-pads none.
C9_ModeMachine ==
    proc.c >= 1
    => /\ NCalls = 0 => proc.last_terminal
       /\ \A i \in 1..NCalls :
             LET post == IF i = NCalls THEN proc ELSE calls[i + 1].pre
             IN  /\ calls[i].ret.ok => (post.last_terminal <=> calls[i].batch.terminal)
                 /\ calls[i].pre.last_terminal => calls[i].npad = proc.c
                 /\ ~calls[i].pre.last_terminal => calls[i].npad = 0

\* C10: a call with a batch of zero timesteps raises, in both modes and for
\* both values of the terminal flag.
C10_EmptyBatchRaises ==
    (proc.c >= 1 /\ NCalls >= 1 /\ BatchLen(Last.batch) = 0) => ~ret.ok

\* C11: a horizon below 1 is rejected at construction, so process_batch never
\* runs on a processor with c < 1.
C11_HorizonAtLeastOne == NCalls >= 1 => proc.c >= 1

\* the per-field sequences of a batch all hold the same number of timesteps
ConsistentLengths(batch) ==
    LET n == BatchLen(batch)
    IN  /\ Len(batch.obs.minimap) = n /\ Len(batch.obs.non_spatial) = n
        /\ Len(batch.actions.spatial) = n /\ Len(batch.actions.non_spatial) = n
        /\ Len(batch.manager_returns) = n /\ Len(batch.worker_returns) = n
        /\ Len(batch.s) = n /\ Len(batch.g) = n /\ Len(batch.g_prev) = n
        /\ Len(batch.idx) = n /\ Len(batch.features) = n

\* C12: a batch whose per-field sequences differ in length fails with an
\* error: it is never processed into a returned batch and nothing of it is
\* appended to the buffers.
C12_MismatchRejected ==
    (NCalls >= 1 /\ proc.c >= 1 /\ ~ConsistentLengths(Last.batch)) =>
        (~ret.ok /\ proc = Last.pre)

\* the timestep a tagged observation, action, return or features value is of
StepOf(code) == code \div 10

\* the calls made so far all belong to one episode
OneEpisode == \A j \in 1..(NCalls - 1) : ~calls[j].batch.terminal

\* record i of the accumulator fb holds the g, g_prev and idx that some call
\* so far supplied for the timestep of the record's observation
RecordAligned(fb, i) ==
    \E j \in 1..NCalls : \E n \in 1..BatchLen(calls[j].batch) :
        /\ calls[j].batch.idx[n] = StepOf(fb.obs.screen[i])
        /\ fb.idx[i] = calls[j].batch.idx[n]
        /\ fb.g[i] = calls[j].batch.g[n]
        /\ fb.g_prev[i] = calls[j].batch.g_prev[n]

\* C13: in every call of an episode, each emitted record's g_in, g_prev and
\* idx are the values supplied for the timestep of the record's observation,
\* and the returned batch's idx is the idx of the earliest timestep emitted.
C13_RecordAlignment ==
    (proc.c >= 1 /\ NCalls >= 1 /\ OneEpisode /\ ret.ok) =>
        /\ \A i \in 1..Records(Last.fb) : RecordAligned(Last.fb, i)
        /\ ret.batch.idx = StepOf(Last.fb.obs.screen[1])

\* every call made so far returned a batch
AllReturned == \A j \in 1..NCalls : calls[j].ret.ok

\* C14: the trim after a non-terminal call keeps in worker_returns the last 2c
\* entries of worker_returns itself, so every record emitted by a later call
\* carries the worker return supplied for its timestep, never a manager
\* return.
C14_WorkerReturnsKept ==
    (proc.c >= 1 /\ NCalls >= 1 /\ OneEpisode /\ AllReturned) =>
        \A i \in 1..Records(ret.batch) :
            ret.batch.worker_returns[i]
                = FieldCode(StepOf(ret.batch.obs.screen[i]), 7)

\* the first call of the episode the last call belongs to
EpisodeStart ==
    LET ends == {j \in 1..(NCalls - 1) : calls[j].batch.terminal}
    IN  IF ends = {} THEN 1 ELSE 1 + CHOOSE j \in ends : \A k \in ends : k <= j

\* every batch fed so far holds at least one timestep
NoEmptyBatch == \A j \in 1..NCalls : BatchLen(calls[j].batch) >= 1

\* the screen observations fed by the calls j..NCalls, in feeding order
RECURSIVE FedFrom(_)
FedFrom(j) ==
    IF j > NCalls THEN <<>> ELSE calls[j].batch.obs.screen \o FedFrom(j + 1)

\* the screen observations of the records the calls j..NCalls returned, in
\* emission order
RECURSIVE EmittedFrom(_)
EmittedFrom(j) ==
    IF j > NCalls THEN <<>>
    ELSE (IF calls[j].ret.ok THEN calls[j].ret.batch.obs.screen ELSE <<>>)
         \o EmittedFrom(j + 1)

\* an episode of non-empty batches whose first batch is longer than c and whose
\* calls before the last are non-terminal
EpisodeFed ==
    /\ proc.c >= 1 /\ NCalls >= 1 /\ NoEmptyBatch
    /\ BatchLen(calls[EpisodeStart].batch) > proc.c

\* the timesteps of the episode not emitted yet: the last c while the episode
\* goes on, none once the terminal call is made
Pending == IF Last.batch.terminal THEN 0 ELSE proc.c

\* C15: over an episode of non-empty batches whose first batch is longer than
\* c, every call returns, the records emitted so far are the timesteps fed so
\* far, each once and in feeding order, except the last c, which a
\* non-terminal call leaves pending at the end of the buffers; after the
\* terminal call every timestep fed has been emitted.
C15_ExactlyOnce ==
    EpisodeFed =>
        LET fedobs == FedFrom(EpisodeStart)
        IN  /\ \A j \in EpisodeStart..NCalls : calls[j].ret.ok
            /\ EmittedFrom(EpisodeStart) = SubSeq(fedobs, 1, Len(fedobs) - Pending)
            /\ ~Last.batch.terminal =>
                 TailSlice(proc.obs.screen, proc.c)
                     = SubSeq(fedobs, Len(fedobs) - proc.c + 1, Len(fedobs))

C15_Witness ==
    /\ EpisodeFed /\ proc.c = MaxC /\ NCalls = 3 /\ EpisodeStart = 1
    /\ Last.batch.terminal
    /\ Len(EmittedFrom(1)) = Len(FedFrom(1)) /\ Len(FedFrom(1)) >= MaxC + 3
    /\ \A j \in 1..3 : Records(calls[j].ret.batch) >= 1

\* the buffers the loop of the last call read: the buffers before the call,
\* extended with the call's batch
LoopBuffers == _extend(Last.pre, Last.batch)

\* the end of the loop of the last call
LoopEnd ==
    WindowEnd(Len(LoopBuffers.p.obs.screen), Last.pre.c, Last.batch.terminal)

\* C16: for c >= 1 and any sequence of non-empty batches, every index the loop
\* of a call reads is in range: for every t in [c, end), t - c >= 0,
\* t + c < len(s), t < len(g) and t is below the length of every other buffer
\* read at t.
C16_WindowsInRange ==
    (proc.c >= 1 /\ NCalls >= 1 /\ NoEmptyBatch /\ LoopBuffers.error = "") =>
        \A t \in (proc.c)..(LoopEnd - 1) :
            /\ t - proc.c >= 0
            /\ InRange(LoopBuffers.p.s, t + proc.c)
            /\ InRange(LoopBuffers.p.s, t)
            /\ InRange(LoopBuffers.p.g, t)
            /\ ReadsInRange(LoopBuffers.p, t)

C16_Witness ==
    /\ proc.c = MaxC /\ NCalls = 3 /\ NoEmptyBatch /\ LoopBuffers.error = ""
    /\ ~calls[1].batch.terminal /\ ~calls[2].batch.terminal /\ Last.batch.terminal
    /\ LoopEnd - proc.c >= MaxC + 1
    /\ Len(LoopBuffers.p.s) = LoopEnd + proc.c
    /\ ret.ok /\ Records(ret.batch) = LoopEnd - proc.c

\* C17: for c >= 1, every call whose batch holds at least one timestep returns
\* a batch without raising, in either mode and with either terminal flag, also
\* a non-terminal call at the start of an episode whose batch holds at most c
\* timesteps.
C17_NonEmptyBatchReturns ==
    (proc.c >= 1 /\ NCalls >= 1 /\ NoEmptyBatch) => ret.ok

\* C18: a process_batch call that raises leaves the processor as it was before
\* the call, its mode and every buffer, so that the next call behaves as if
\* the failed call had never been made.
C18_FailedCallLeavesState ==
    (proc.c >= 1 /\ NCalls >= 1 /\ ~ret.ok) => proc = Last.pre

====
